---- MODULE Spec2Model ----
(***************************************************************************)
(* A model of the MapReduce coordinator (src/src/mr/coordinator.rs), the   *)
(* worker loop (src/src/bin/mrworker.rs) and the coordinator driver        *)
(* (src/src/bin/mrcoordinator.rs).                                         *)
(*                                                                         *)
(* Every field of Coordinator sits behind its own std::sync::Mutex, and    *)
(* every RPC handler runs on its own task, so a handler is modelled as a   *)
(* sequence of steps, one per blocking lock(): the work done between two   *)
(* lock() calls belongs to the step of the earlier one.  A panic inside a  *)
(* handler (a failed assert!, or unwrap() of a poisoned lock) poisons      *)
(* every mutex whose guard the handler holds, as the guards drop while the *)
(* task unwinds.                                                           *)
(***************************************************************************)
EXTENDS Integers, FiniteSets, Sequences, TLC

\* ---------------------------------------------------------------- bounds
\* The largest number of map tasks and of reduce tasks.
MaxMapN == 2
MaxReduceN == 1
\* Worker processes that may be killed.
MaxCrashes == 1
\* Time is counted in ticks; a lease is stale after LeaseTicks ticks
\* (Duration::new(5, 0) in check_lease).
LeaseTicks == 2

\* The words of the input files are 1..MaxWord, in their sort order, and an
\* input file has at most MaxWord of them.
MaxWord == 2
\* The largest number of reduce tasks of a word-count run.
MaxParts == 2

\* ------------------------------------------------------- program constants
\* Worker::reduce: `let mut prev = String::new()`, the empty string.
NoKey == 0
\* get_map_task / get_reduce_task: no more tasks in this phase.
PHASE_DONE == -1
\* get_map_task: not prepared; get_reduce_task: map phase not finished.
NOT_READY == -2
\* get_map_task / get_reduce_task: leases outstanding, ask again.
WAIT_RETRY == -3
\* Worker::new: map_task_id / reduce_task_id when no task is held.
NoTask == -1

VARIABLES
    \* the job's configuration (Coordinator::new)
    map_n, reduce_n, worker_n,
    \* whether the clients are mrworker processes (FALSE) or raw clients of
    \* the RPC service, free to call any method with any argument (TRUE)
    raw,
    \* how many worker processes have been killed
    crashes,
    \* Coordinator's fields
    map_tasks, map_id, reduce_tasks, reduce_id,
    map_finish, reduce_finish, worker_id,
    map_leases, reduce_leases,
    \* the mutexes: who holds each, and which are poisoned
    holder, poisoned,
    \* log/coordinator.wal: the last snapshot serialize() wrote
    wal,
    \* the driver's position
    drv_pc,
    \* each worker process: position, Worker.state, the task id it holds,
    \* the worker id it was given, the last reply to a task request
    pc, state, cur_task, my_id, ret,
    \* for each outstanding lease, the worker process whose task request
    \* was answered with the id when the lease was created
    map_lessee, reduce_lessee,
    \* the intermediate files mr-{i}-*.txt of each map id, as far as the
    \* workers' file operations are steps of their own: absent, being
    \* written, or written to the end; and what Worker::reduce has read
    inter, consumed,
    \* the word-count data: the input files pg-{i}.txt as lists of words,
    \* the hash of each word, the records in each intermediate file
    \* mr-{i}-{j}.txt and the lines of each output file mr-{j}.txt
    docs, hash, ifile, ofile

cfg == <<map_n, reduce_n, worker_n, raw>>
coord == <<map_tasks, map_id, reduce_tasks, reduce_id, map_finish,
           reduce_finish, worker_id, map_leases, reduce_leases>>
locks == <<holder, poisoned>>
wrk == <<pc, state, cur_task, my_id, ret>>
hist == <<map_lessee, reduce_lessee>>
io == <<inter, consumed, docs, hash, ifile, ofile>>
vars == <<cfg, crashes, coord, locks, wal, drv_pc, wrk, hist, io>>

Locks == {"map_id", "reduce_id", "worker_id", "map_tasks", "reduce_tasks",
          "map_leases", "reduce_leases", "reduce_finish", "map_finish"}

\* The worker processes: two of them, each the client of one handler task
\* at a time.  A job configured for one worker sees the second one ask for
\* a worker id beyond the capacity.
Procs == {"w1", "w2"}

\* The thread of mrcoordinator's main.
Driver == "main"

\* The empty HashMap.
EmptyMap == [k \in {} |-> TRUE]

\* HashMap::insert
Insert(m, k, v) == [x \in DOMAIN m \cup {k} |-> IF x = k THEN v ELSE m[x]]

\* HashMap::remove_entry
Remove(m, k) == [x \in DOMAIN m \ {k} |-> m[x]]

\* The lessees after a task request of p: p for the lease it created.
Lessees(lessee, leases2, p) ==
    [k \in DOMAIN leases2 |-> IF k \in DOMAIN lessee THEN lessee[k] ELSE p]

\* The workers' file operations are steps of their own.
Tracked == DOMAIN inter # {}

\* ------------------------------------------------------------- the mutexes
\* A faulty variant: a lock() never blocks.
Free_Unlocked(l) == TRUE

\* Mutex::lock returns at once: no thread holds a guard of the mutex.
Free(l) == holder[l] = {}

HeldBy(t) == {l \in Locks : holder[l] = {t}}

\* The coordinator process is running: main has neither returned nor
\* panicked.
CoordUp == drv_pc \notin {"finished", "panicked"}

\* Dropping every guard thread t holds.
Released(t) == [l \in Locks |-> holder[l] \ {t}]

\* A handler panics: its guards drop while unwinding and poison their
\* mutexes; the worker's call fails and the worker process ends with the
\* error (`.await?` in main).
PanicFrame(p) ==
    /\ poisoned' = poisoned \cup HeldBy(p)
    /\ holder' = Released(p)
    /\ pc' = [pc EXCEPT ![p] = "failed"]
    /\ UNCHANGED <<cfg, io, hist, crashes, wal, drv_pc, state, cur_task, my_id, ret>>

\* A panic before the handler has written to any field.
HandlerPanic(p) == PanicFrame(p) /\ UNCHANGED coord

\* x.lock().unwrap() as a step of its own: blocks while another thread
\* holds the mutex, panics when the mutex is poisoned.
LockStep(p, from, l, to) ==
    /\ CoordUp
    /\ pc[p] = from
    /\ Free(l)
    /\ IF l \in poisoned
       THEN HandlerPanic(p)
       ELSE /\ holder' = [holder EXCEPT ![l] = {p}]
            /\ pc' = [pc EXCEPT ![p] = to]
            /\ UNCHANGED <<cfg, io, hist, crashes, coord, poisoned, wal, drv_pc,
                           state, cur_task, my_id, ret>>

\* ------------------------------------------------------------ Coordinator
\* A faulty variant: the scan does not skip the tasks marked true.
Staled_NoSkip(tasks) == DOMAIN tasks

\* The staled tasks of a phase: the entries the scan `if v { continue; }`
\* does not skip.
Staled(tasks) == {k \in DOMAIN tasks : ~tasks[k]}

\* A faulty variant: the scan for staled tasks always comes first.
Exhausted_Always(id, n, fin) == TRUE

\* get_*_task: `*cur_map_id == self.map_n || *self.map_finish.lock()`, no
\* fresh id is left to hand out.
Exhausted(id, n, fin) == id = n \/ fin

\* A faulty variant: outstanding leases are not looked at.
LeasesOutstanding_Ignored(leases) == FALSE

\* get_*_task: `!cur_map_leases.is_empty()`, more staled tasks may come.
LeasesOutstanding(leases) == DOMAIN leases # {}

\* A faulty variant: the lease of the reported id is not checked.
ReportValid_TaskOnly(tasks, leases, id) == id \in DOMAIN tasks /\ tasks[id]

\* report_*_task_finish: the two sanity checks on the reported id.
ReportValid(tasks, leases, id) ==
    /\ id \in DOMAIN tasks /\ tasks[id]
    /\ id \in DOMAIN leases

\* A faulty variant: the phase flag is set without a look at the id counter.
AllAssigned_Unchecked(id, n) == TRUE

\* report_*_task_finish: `*map_id == self.map_n`, every id of the phase has
\* been handed out.
AllAssigned(id, n) == id = n

\* A faulty variant: the capacity is not checked.
AtCapacity_Unchecked == FALSE

\* get_worker_id: the operand of assert!(cur_num != self.worker_n).
AtCapacity == worker_id = worker_n

\* A faulty variant: the counter is not incremented.
NextWorkerId_Same(w) == w

\* get_worker_id: `*cur_worker_id += 1`.
NextWorkerId(w) == w + 1

\* A faulty variant: the job counts as prepared from the start.
prepare_Always == TRUE

\* Coordinator::prepare, once the worker_id lock is taken.
prepare == worker_id = worker_n

\* Coordinator::done, once both locks are taken.
done == map_finish /\ reduce_finish

\* ------------------------------------------------------- worker registration
\* mrworker main, lines 45-50: the worker stores its id and enters the loop
\* in map state.
\* get_worker_id: one lock, so the handler is one step.
get_worker_id(p) ==
    /\ CoordUp
    /\ pc[p] = "start"
    /\ Free("worker_id")
    /\ IF "worker_id" \in poisoned \/ AtCapacity
       THEN /\ poisoned' = poisoned \cup {"worker_id"}
            /\ pc' = [pc EXCEPT ![p] = "failed"]
            /\ UNCHANGED <<cfg, io, hist, crashes, coord, holder, wal, drv_pc,
                           state, cur_task, my_id, ret>>
       ELSE /\ worker_id' = NextWorkerId(worker_id)
            /\ my_id' = [my_id EXCEPT ![p] = {worker_id}]
            /\ pc' = [pc EXCEPT ![p] = "idle"]
            /\ UNCHANGED <<cfg, io, hist, crashes, map_tasks, map_id, reduce_tasks,
                           reduce_id, map_finish, reduce_finish, map_leases,
                           reduce_leases, locks, wal, drv_pc, state,
                           cur_task, ret>>

\* ------------------------------------------------------------ worker loop
\* mrworker main, the map arm (lines 56-84), on the reply to get_map_task:
\* -2 sleeps and asks again, -1 changes to reduce state, anything else is
\* taken as a task id: Worker::map opens pg-{id}.txt, which exists for the
\* ids of the job's inputs only, and the unwrap() of a failed open ends the
\* worker process.
OnMapReply(p, code) ==
    /\ ret' = [ret EXCEPT ![p] = {code}]
    /\ IF raw \/ code = NOT_READY
       THEN /\ pc' = [pc EXCEPT ![p] = "idle"]
            /\ UNCHANGED <<state, cur_task>>
       ELSE IF code = PHASE_DONE
       THEN /\ pc' = [pc EXCEPT ![p] = "idle"]
            /\ state' = [state EXCEPT ![p] = TRUE]
            /\ UNCHANGED cur_task
       ELSE /\ cur_task' = [cur_task EXCEPT ![p] = code]
            /\ pc' = [pc EXCEPT ![p] = IF code \in 0..(map_n - 1)
                                       THEN "work" ELSE "dead"]
            /\ UNCHANGED state

\* mrworker main, the reduce arm (lines 85-106), on the reply to
\* get_reduce_task: -2 sleeps and asks again, -1 ends the worker, anything
\* else is taken as a task id: Worker::reduce opens mr-{i}-{id}.txt, which
\* no map task writes for an id outside 0..reduce_n-1.
OnReduceReply(p, code) ==
    /\ ret' = [ret EXCEPT ![p] = {code}]
    /\ UNCHANGED state
    /\ IF raw \/ code = NOT_READY
       THEN /\ pc' = [pc EXCEPT ![p] = "idle"]
            /\ UNCHANGED cur_task
       ELSE IF code = PHASE_DONE
       THEN /\ pc' = [pc EXCEPT ![p] = "exited"]
            /\ UNCHANGED cur_task
       ELSE /\ cur_task' = [cur_task EXCEPT ![p] = code]
            /\ pc' = [pc EXCEPT ![p] = IF code \in 0..(reduce_n - 1)
                                       THEN "work" ELSE "dead"]

\* ------------------------------------------------------------ get_map_task
\* The handler returns `code` with the map fields as given; its guards drop.
GmReturn(p, code, tasks2, leases2, id2) ==
    /\ map_tasks' = tasks2
    /\ map_leases' = leases2
    /\ map_id' = id2
    /\ map_lessee' = Lessees(map_lessee, leases2, p)
    /\ UNCHANGED reduce_lessee
    /\ holder' = Released(p)
    /\ OnMapReply(p, code)
    /\ UNCHANGED <<cfg, io, crashes, reduce_tasks, reduce_id, map_finish,
                   reduce_finish, worker_id, reduce_leases, poisoned, wal,
                   drv_pc, my_id>>

\* get_map_task, lines 290-333, with mf the value read from map_finish (not
\* read when map_id = map_n).  The scan of the HashMap meets the staled
\* tasks in no fixed order.
GmBody(p, mf) ==
    IF Exhausted(map_id, map_n, mf)
    THEN LET stale == Staled(map_tasks) IN
         IF stale # {}
         THEN \E k \in stale :
                 IF k \in DOMAIN map_leases
                 THEN /\ PanicFrame(p)
                      /\ map_tasks' = Insert(map_tasks, k, TRUE)
                      /\ UNCHANGED <<map_id, reduce_tasks, reduce_id,
                                     map_finish, reduce_finish, worker_id,
                                     map_leases, reduce_leases>>
                 ELSE GmReturn(p, k, Insert(map_tasks, k, TRUE),
                               Insert(map_leases, k, 0), map_id)
         ELSE IF LeasesOutstanding(map_leases)
         THEN GmReturn(p, WAIT_RETRY, map_tasks, map_leases, map_id)
         ELSE GmReturn(p, PHASE_DONE, map_tasks, map_leases, map_id)
    ELSE GmReturn(p, map_id, Insert(map_tasks, map_id, TRUE),
                  Insert(map_leases, map_id, 0), map_id + 1)

\* Lines 281-283: the three guards, taken in this order.
GmLock(p) ==
    \/ /\ ~state[p]
       /\ LockStep(p, "idle", "map_id", "gm1")
    \/ LockStep(p, "gm1", "map_tasks", "gm2")
    \/ LockStep(p, "gm2", "map_leases", "gm3")

\* Lines 285-290: prepare() takes and drops the worker_id lock; the test
\* of map_id short-circuits the read of map_finish.
GmPrepare(p) ==
    /\ CoordUp
    /\ pc[p] = "gm3"
    /\ Free("worker_id")
    /\ IF "worker_id" \in poisoned
       THEN HandlerPanic(p)
       ELSE IF ~prepare
       THEN GmReturn(p, NOT_READY, map_tasks, map_leases, map_id)
       ELSE IF map_id = map_n
       THEN GmBody(p, FALSE)
       ELSE /\ pc' = [pc EXCEPT ![p] = "gm4"]
            /\ UNCHANGED <<cfg, io, hist, crashes, coord, locks, wal, drv_pc, state,
                           cur_task, my_id, ret>>

\* Line 290, second operand: the map_finish lock is taken, read and dropped.
GmFinish(p) ==
    /\ CoordUp
    /\ pc[p] = "gm4"
    /\ Free("map_finish")
    /\ IF "map_finish" \in poisoned
       THEN HandlerPanic(p)
       ELSE GmBody(p, map_finish)

get_map_task(p) == GmLock(p) \/ GmPrepare(p) \/ GmFinish(p)

\* --------------------------------------------------------- get_reduce_task
\* The handler returns `code` with the reduce fields as given.
GrReturn(p, code, tasks2, leases2, id2) ==
    /\ reduce_tasks' = tasks2
    /\ reduce_leases' = leases2
    /\ reduce_id' = id2
    /\ reduce_lessee' = Lessees(reduce_lessee, leases2, p)
    /\ UNCHANGED map_lessee
    /\ holder' = Released(p)
    /\ OnReduceReply(p, code)
    /\ UNCHANGED <<cfg, io, crashes, map_tasks, map_id, map_finish,
                   reduce_finish, worker_id, map_leases, poisoned, wal,
                   drv_pc, my_id>>

\* get_reduce_task, lines 347-385, with rf the value read from
\* reduce_finish (not read when reduce_id = reduce_n).
GrBody(p, rf) ==
    IF Exhausted(reduce_id, reduce_n, rf)
    THEN LET stale == Staled(reduce_tasks) IN
         IF stale # {}
         THEN \E k \in stale :
                 IF k \in DOMAIN reduce_leases
                 THEN /\ PanicFrame(p)
                      /\ reduce_tasks' = Insert(reduce_tasks, k, TRUE)
                      /\ UNCHANGED <<map_tasks, map_id, reduce_id,
                                     map_finish, reduce_finish, worker_id,
                                     map_leases, reduce_leases>>
                 ELSE GrReturn(p, k, Insert(reduce_tasks, k, TRUE),
                               Insert(reduce_leases, k, 0), reduce_id)
         ELSE IF LeasesOutstanding(reduce_leases)
         THEN GrReturn(p, WAIT_RETRY, reduce_tasks, reduce_leases, reduce_id)
         ELSE GrReturn(p, PHASE_DONE, reduce_tasks, reduce_leases, reduce_id)
    ELSE GrReturn(p, reduce_id, Insert(reduce_tasks, reduce_id, TRUE),
                  Insert(reduce_leases, reduce_id, 0), reduce_id + 1)

\* Lines 338-340: the three guards, taken in this order.
GrLock(p) ==
    \/ /\ state[p]
       /\ LockStep(p, "idle", "reduce_id", "gr1")
    \/ LockStep(p, "gr1", "reduce_tasks", "gr2")
    \/ LockStep(p, "gr2", "reduce_leases", "gr3")

\* A faulty variant: reduce tasks are handed out whatever the map phase.
MapBarrier_Off == FALSE

\* Lines 342-345: `!*self.map_finish.lock().unwrap()`, the map phase has
\* not finished.
MapBarrier == ~map_finish

\* Lines 342-347: the map_finish lock is taken, read and dropped; the test
\* of reduce_id short-circuits the read of reduce_finish.
GrBarrier(p) ==
    /\ CoordUp
    /\ pc[p] = "gr3"
    /\ Free("map_finish")
    /\ IF "map_finish" \in poisoned
       THEN HandlerPanic(p)
       ELSE IF MapBarrier
       THEN GrReturn(p, NOT_READY, reduce_tasks, reduce_leases, reduce_id)
       ELSE IF reduce_id = reduce_n
       THEN GrBody(p, FALSE)
       ELSE /\ pc' = [pc EXCEPT ![p] = "gr4"]
            /\ UNCHANGED <<cfg, io, hist, crashes, coord, locks, wal, drv_pc, state,
                           cur_task, my_id, ret>>

\* Line 347, second operand: the reduce_finish lock is taken, read and
\* dropped.
GrFinish(p) ==
    /\ CoordUp
    /\ pc[p] = "gr4"
    /\ Free("reduce_finish")
    /\ IF "reduce_finish" \in poisoned
       THEN HandlerPanic(p)
       ELSE GrBody(p, reduce_finish)

get_reduce_task(p) == GrLock(p) \/ GrBarrier(p) \/ GrFinish(p)

\* ---------------------------------------------------------------- serialize
\* What serialize() writes between BEGIN and END: the tasks and id counter
\* of each phase, the two flags, and the ids (not the times) of the leases.
Snapshot ==
    [map_tasks |-> map_tasks, map_id |-> map_id,
     reduce_tasks |-> reduce_tasks, reduce_id |-> reduce_id,
     map_finish |-> map_finish, reduce_finish |-> reduce_finish,
     map_leases |-> DOMAIN map_leases, reduce_leases |-> DOMAIN reduce_leases]

\* serialize(), lines 136-143: the guards, taken in this order.  The call
\* is the first thing a report handler does, so the worker leaves Worker::map
\* or Worker::reduce ("work") with the first lock().
SerLock(p) ==
    \/ LockStep(p, IF Tracked THEN "written" ELSE "work", "map_id", "ser1")
    \/ LockStep(p, "ser1", "reduce_id", "ser2")
    \/ LockStep(p, "ser2", "map_tasks", "ser3")
    \/ LockStep(p, "ser3", "reduce_tasks", "ser4")
    \/ LockStep(p, "ser4", "map_leases", "ser5")
    \/ LockStep(p, "ser5", "reduce_leases", "ser6")
    \/ LockStep(p, "ser6", "reduce_finish", "ser7")

\* serialize(), lines 143-199: with the last guard the snapshot is written
\* and every guard drops.
SerWrite(p) ==
    /\ CoordUp
    /\ pc[p] = "ser7"
    /\ Free("map_finish")
    /\ IF "map_finish" \in poisoned
       THEN HandlerPanic(p)
       ELSE /\ wal' = <<Snapshot>>
            /\ holder' = Released(p)
            /\ pc' = [pc EXCEPT ![p] = "rp0"]
            /\ UNCHANGED <<cfg, io, hist, crashes, coord, poisoned, drv_pc, state,
                           cur_task, my_id, ret>>

serialize(p) == SerLock(p) \/ SerWrite(p)

\* ------------------------------------------------- report_*_task_finish
\* The report returns true: the worker's assert passes and its loop starts
\* over (Worker::map / Worker::reduce have reset the task id).
ReportReturn(p) ==
    /\ holder' = Released(p)
    /\ pc' = [pc EXCEPT ![p] = "idle"]
    /\ cur_task' = [cur_task EXCEPT ![p] = NoTask]
    /\ ret' = [ret EXCEPT ![p] = {}]
    /\ UNCHANGED <<cfg, io, crashes, poisoned, wal, drv_pc, state, my_id>>

\* report_map_task_finish, lines 408-409.
RmLock(p) ==
    /\ ~state[p]
    /\ \/ LockStep(p, "rp0", "map_tasks", "rp1")
       \/ LockStep(p, "rp2", "map_finish", "rp3")

\* report_map_task_finish, lines 409-434: with the map_leases guard the
\* sanity checks run, the lease goes, and the handler returns when a staled
\* task or another lease is left.
RmBody(p) ==
    /\ CoordUp
    /\ ~state[p]
    /\ pc[p] = "rp1"
    /\ Free("map_leases")
    /\ LET id == cur_task[p] IN
       IF \/ "map_leases" \in poisoned
          \/ ~ReportValid(map_tasks, map_leases, id)
       THEN /\ poisoned' = poisoned \cup HeldBy(p) \cup {"map_leases"}
            /\ holder' = Released(p)
            /\ pc' = [pc EXCEPT ![p] = "failed"]
            /\ UNCHANGED <<cfg, io, hist, crashes, coord, wal, drv_pc, state,
                           cur_task, my_id, ret>>
       ELSE /\ map_leases' = Remove(map_leases, id)
            /\ map_lessee' = Remove(map_lessee, id)
            /\ UNCHANGED reduce_lessee
            /\ UNCHANGED <<map_tasks, map_id, reduce_tasks, reduce_id,
                           map_finish, reduce_finish, worker_id,
                           reduce_leases>>
            /\ IF \/ Staled(map_tasks) # {}
                  \/ DOMAIN map_leases # {id}
               THEN ReportReturn(p)
               ELSE /\ holder' = [holder EXCEPT !["map_leases"] = {p}]
                    /\ pc' = [pc EXCEPT ![p] = "rp2"]
                    /\ UNCHANGED <<cfg, io, crashes, poisoned, wal, drv_pc,
                                   state, cur_task, my_id, ret>>

\* report_map_task_finish, lines 437-445: with the map_id guard the flag is
\* set when every map id has been handed out.
RmFinish(p) ==
    /\ CoordUp
    /\ ~state[p]
    /\ pc[p] = "rp3"
    /\ Free("map_id")
    /\ IF "map_id" \in poisoned
       THEN HandlerPanic(p)
       ELSE /\ map_finish' = (map_finish \/ AllAssigned(map_id, map_n))
            /\ UNCHANGED hist
            /\ UNCHANGED <<map_tasks, map_id, reduce_tasks, reduce_id,
                           reduce_finish, worker_id, map_leases,
                           reduce_leases>>
            /\ ReportReturn(p)

report_map_task_finish(p) == RmLock(p) \/ RmBody(p) \/ RmFinish(p)

\* report_reduce_task_finish, lines 453-454.
RrLock(p) ==
    /\ state[p]
    /\ \/ LockStep(p, "rp0", "reduce_tasks", "rp1")
       \/ LockStep(p, "rp2", "reduce_finish", "rp3")

\* report_reduce_task_finish, lines 454-479.
RrBody(p) ==
    /\ CoordUp
    /\ state[p]
    /\ pc[p] = "rp1"
    /\ Free("reduce_leases")
    /\ LET id == cur_task[p] IN
       IF \/ "reduce_leases" \in poisoned
          \/ ~ReportValid(reduce_tasks, reduce_leases, id)
       THEN /\ poisoned' = poisoned \cup HeldBy(p) \cup {"reduce_leases"}
            /\ holder' = Released(p)
            /\ pc' = [pc EXCEPT ![p] = "failed"]
            /\ UNCHANGED <<cfg, io, hist, crashes, coord, wal, drv_pc, state,
                           cur_task, my_id, ret>>
       ELSE /\ reduce_leases' = Remove(reduce_leases, id)
            /\ reduce_lessee' = Remove(reduce_lessee, id)
            /\ UNCHANGED map_lessee
            /\ UNCHANGED <<map_tasks, map_id, reduce_tasks, reduce_id,
                           map_finish, reduce_finish, worker_id, map_leases>>
            /\ IF \/ Staled(reduce_tasks) # {}
                  \/ DOMAIN reduce_leases # {id}
               THEN ReportReturn(p)
               ELSE /\ holder' = [holder EXCEPT !["reduce_leases"] = {p}]
                    /\ pc' = [pc EXCEPT ![p] = "rp2"]
                    /\ UNCHANGED <<cfg, io, crashes, poisoned, wal, drv_pc,
                                   state, cur_task, my_id, ret>>

\* report_reduce_task_finish, lines 481-490.
RrFinish(p) ==
    /\ CoordUp
    /\ state[p]
    /\ pc[p] = "rp3"
    /\ Free("reduce_id")
    /\ IF "reduce_id" \in poisoned
       THEN HandlerPanic(p)
       ELSE /\ reduce_finish' =
                   (reduce_finish \/ AllAssigned(reduce_id, reduce_n))
            /\ UNCHANGED hist
            /\ UNCHANGED <<map_tasks, map_id, reduce_tasks, reduce_id,
                           map_finish, worker_id, map_leases, reduce_leases>>
            /\ ReportReturn(p)

report_reduce_task_finish(p) == RrLock(p) \/ RrBody(p) \/ RrFinish(p)

\* ------------------------------------------------------------------ driver
\* The main thread panics: the coordinator process ends.
DriverPanic ==
    /\ drv_pc' = "panicked"
    /\ holder' = Released(Driver)
    /\ UNCHANGED <<cfg, io, hist, crashes, coord, poisoned, wal, wrk>>

\* A lock() of the main thread as a step of its own.
DriverLock(from, l, to) ==
    /\ drv_pc = from
    /\ Free(l)
    /\ IF l \in poisoned
       THEN DriverPanic
       ELSE /\ holder' = [holder EXCEPT ![l] = {Driver}]
            /\ drv_pc' = to
            /\ UNCHANGED <<cfg, io, hist, crashes, coord, poisoned, wal, wrk>>

\* mrcoordinator main, lines 88-91, calling Coordinator::done (lines 67-69):
\* the map_finish guard is a temporary of the && expression and is still
\* held when reduce_finish is locked; reduce_finish is not locked when
\* map_finish is false.
DoneProbe ==
    \/ /\ drv_pc = "loop"
       /\ Free("map_finish")
       /\ IF "map_finish" \in poisoned
          THEN DriverPanic
          ELSE /\ IF map_finish
                  THEN /\ holder' = [holder EXCEPT !["map_finish"] = {Driver}]
                       /\ drv_pc' = "done1"
                  ELSE UNCHANGED <<holder, drv_pc>>
               /\ UNCHANGED <<cfg, io, hist, crashes, coord, poisoned, wal, wrk>>
    \/ /\ drv_pc = "done1"
       /\ Free("reduce_finish")
       /\ IF "reduce_finish" \in poisoned
          THEN DriverPanic
          ELSE /\ drv_pc' = IF done THEN "finished" ELSE "loop"
               /\ holder' = Released(Driver)
               /\ UNCHANGED <<cfg, io, hist, crashes, coord, poisoned, wal, wrk>>

\* The leases check_lease finds stale: not renewed for the lease duration.
StaleLeases(leases) == {k \in DOMAIN leases : leases[k] >= LeaseTicks}

\* A faulty variant: every task of the phase is marked false.
MarkStale_Every(tasks, ids) == [k \in DOMAIN tasks \cup ids |-> FALSE]

\* The tasks after the stale ids are marked false.
MarkStale(tasks, ids) ==
    [k \in DOMAIN tasks \cup ids |-> IF k \in ids THEN FALSE ELSE tasks[k]]

\* A faulty variant: the stale leases stay.
DropLeases_Keep(leases, ids) == leases

\* The leases after the stale ids are removed.
DropLeases(leases, ids) == [k \in DOMAIN leases \ ids |-> leases[k]]

\* check_lease, lines 74-82: the guards, taken in this order.
ClLock ==
    \/ DriverLock("loop", "map_id", "cl1")
    \/ DriverLock("cl1", "reduce_id", "cl2")
    \/ DriverLock("cl2", "worker_id", "cl3")
    \/ DriverLock("cl3", "map_tasks", "cl4")
    \/ DriverLock("cl4", "reduce_tasks", "cl5")
    \/ DriverLock("cl5", "map_leases", "cl6")
    \/ DriverLock("cl6", "reduce_leases", "cl7")
    \/ DriverLock("cl7", "reduce_finish", "cl8")

\* check_lease, lines 83-131: with the last guard the leases of the running
\* phase are checked; the assert on a stale id's task panics when the task
\* is missing or false.
ClBody ==
    /\ drv_pc = "cl8"
    /\ Free("map_finish")
    /\ IF "map_finish" \in poisoned
       THEN DriverPanic
       ELSE IF map_finish /\ reduce_finish
       THEN /\ drv_pc' = "loop"
            /\ holder' = Released(Driver)
            /\ UNCHANGED <<cfg, io, hist, crashes, coord, poisoned, wal, wrk>>
       ELSE IF map_finish
       THEN LET ids == StaleLeases(reduce_leases) IN
            IF \E k \in ids : ~(k \in DOMAIN reduce_tasks /\ reduce_tasks[k])
            THEN DriverPanic
            ELSE /\ reduce_tasks' = MarkStale(reduce_tasks, ids)
                 /\ reduce_leases' = DropLeases(reduce_leases, ids)
                 /\ reduce_lessee' = DropLeases(reduce_lessee, ids)
                 /\ UNCHANGED map_lessee
                 /\ drv_pc' = "loop"
                 /\ holder' = Released(Driver)
                 /\ UNCHANGED <<cfg, io, crashes, map_tasks, map_id, reduce_id,
                                map_finish, reduce_finish, worker_id,
                                map_leases, poisoned, wal, wrk>>
       ELSE LET ids == StaleLeases(map_leases) IN
            IF \E k \in ids : ~(k \in DOMAIN map_tasks /\ map_tasks[k])
            THEN DriverPanic
            ELSE /\ map_tasks' = MarkStale(map_tasks, ids)
                 /\ map_leases' = DropLeases(map_leases, ids)
                 /\ map_lessee' = DropLeases(map_lessee, ids)
                 /\ UNCHANGED reduce_lessee
                 /\ drv_pc' = "loop"
                 /\ holder' = Released(Driver)
                 /\ UNCHANGED <<cfg, io, crashes, map_id, reduce_tasks,
                                reduce_id, map_finish, reduce_finish,
                                worker_id, reduce_leases, poisoned, wal, wrk>>

check_lease == ClLock \/ ClBody

\* ------------------------------------------------------------- environment
\* One tick of time passes: every lease is one tick older (Instant::elapsed).
Older(leases) ==
    [k \in DOMAIN leases |->
        IF leases[k] < LeaseTicks THEN leases[k] + 1 ELSE leases[k]]

Tick ==
    /\ CoordUp
    /\ \/ \E k \in DOMAIN map_leases : map_leases[k] < LeaseTicks
       \/ \E k \in DOMAIN reduce_leases : reduce_leases[k] < LeaseTicks
    /\ map_leases' = Older(map_leases)
    /\ reduce_leases' = Older(reduce_leases)
    /\ UNCHANGED <<cfg, io, hist, crashes, map_tasks, map_id, reduce_tasks, reduce_id,
                   map_finish, reduce_finish, worker_id, locks, wal, drv_pc,
                   wrk>>

\* A worker process is killed between two calls: waiting for its next
\* request, or executing a task it was dispatched.
Crash(p) ==
    /\ ~raw
    /\ pc[p] \in {"idle", "work", "writing", "written"}
    /\ crashes < MaxCrashes
    /\ crashes' = crashes + 1
    /\ pc' = [pc EXCEPT ![p] = "crashed"]
    /\ UNCHANGED <<cfg, io, hist, coord, locks, wal, drv_pc, state, cur_task, my_id,
                   ret>>

\* The coordinator process is gone: a worker's call fails and the worker
\* process ends with the error.
RpcFail(p) ==
    /\ ~CoordUp
    /\ pc[p] \notin {"exited", "dead", "failed", "crashed"}
    /\ pc' = [pc EXCEPT ![p] = "failed"]
    /\ UNCHANGED <<cfg, io, hist, crashes, coord, locks, wal, drv_pc, state, cur_task,
                   my_id, ret>>

\* ---------------------------------------------------------------- renewal
\* A faulty variant: the renewal leaves the lease time as it was.
Renewed_Keep(leases, id) == leases

\* renew_*_lease: `map_lease.insert(id, Instant::now())`.
Renewed(leases, id) == Insert(leases, id, 0)

\* A faulty variant: the renewal does not look for the lease.
HasLease_Unchecked(leases, id) == TRUE

\* renew_*_lease: `assert!(map_lease.contains_key(&id))`.
HasLease(leases, id) == id \in DOMAIN leases

\* renew_map_lease, lines 259-266: one lock, so the handler is one step.
\* No code of mrworker calls it; a raw client does, with id = cur_task[p].
renew_map_lease(p) ==
    /\ CoordUp
    /\ raw
    /\ pc[p] = "renew"
    /\ ~state[p]
    /\ Free("map_leases")
    /\ IF "map_leases" \in poisoned \/ ~HasLease(map_leases, cur_task[p])
       THEN /\ poisoned' = poisoned \cup {"map_leases"}
            /\ pc' = [pc EXCEPT ![p] = "failed"]
            /\ UNCHANGED <<cfg, io, hist, crashes, coord, holder, wal, drv_pc, state,
                           cur_task, my_id, ret>>
       ELSE /\ map_leases' = Renewed(map_leases, cur_task[p])
            /\ pc' = [pc EXCEPT ![p] = "idle"]
            /\ UNCHANGED <<cfg, io, hist, crashes, map_tasks, map_id, reduce_tasks,
                           reduce_id, map_finish, reduce_finish, worker_id,
                           reduce_leases, locks, wal, drv_pc, state,
                           cur_task, my_id, ret>>

\* renew_reduce_lease, lines 269-276.
renew_reduce_lease(p) ==
    /\ CoordUp
    /\ raw
    /\ pc[p] = "renew"
    /\ state[p]
    /\ Free("reduce_leases")
    /\ IF "reduce_leases" \in poisoned \/ ~HasLease(reduce_leases, cur_task[p])
       THEN /\ poisoned' = poisoned \cup {"reduce_leases"}
            /\ pc' = [pc EXCEPT ![p] = "failed"]
            /\ UNCHANGED <<cfg, io, hist, crashes, coord, holder, wal, drv_pc, state,
                           cur_task, my_id, ret>>
       ELSE /\ reduce_leases' = Renewed(reduce_leases, cur_task[p])
            /\ pc' = [pc EXCEPT ![p] = "idle"]
            /\ UNCHANGED <<cfg, io, hist, crashes, map_tasks, map_id, reduce_tasks,
                           reduce_id, map_finish, reduce_finish, worker_id,
                           map_leases, locks, wal, drv_pc, state,
                           cur_task, my_id, ret>>

\* ------------------------------------------------------------- raw clients
\* The ids a raw client passes: every id a job of the largest size has, so
\* also ids the job at hand does not have.
RawIds == 0..(MaxMapN - 1) \cup 0..(MaxReduceN - 1)

\* A raw client decides its next call: get_worker_id ("start"), a task
\* request ("idle"), a completion report of any id ("work") or a lease
\* renewal of any id ("renew"), of either phase.  Like mrworker it gives up when a call of its fails.
RawStep(p) ==
    /\ raw
    /\ pc[p] \in {"start", "idle"}
    /\ \E nxt \in {"start", "idle", "work", "renew"}, ph \in BOOLEAN,
          id \in RawIds :
          /\ pc' = [pc EXCEPT ![p] = nxt]
          /\ state' = [state EXCEPT ![p] = ph]
          /\ cur_task' = [cur_task EXCEPT ![p] =
                             IF nxt \in {"work", "renew"} THEN id
                             ELSE NoTask]
          /\ ret' = [ret EXCEPT ![p] = {}]
    /\ UNCHANGED <<cfg, io, hist, crashes, coord, locks, wal, drv_pc, my_id>>

InitJob ==
    /\ map_n \in 1..MaxMapN
    /\ reduce_n \in 1..MaxReduceN
    /\ worker_n \in 1..Cardinality(Procs)
    /\ crashes = 0
    /\ map_tasks = EmptyMap
    /\ map_id = 0
    /\ reduce_tasks = EmptyMap
    /\ reduce_id = 0
    /\ map_finish = FALSE
    /\ reduce_finish = FALSE
    /\ worker_id = 0
    /\ map_leases = EmptyMap
    /\ reduce_leases = EmptyMap
    /\ holder = [l \in Locks |-> {}]
    /\ poisoned = {}
    /\ wal = <<>>
    /\ drv_pc = "loop"
    /\ pc = [p \in Procs |-> "start"]
    /\ state = [p \in Procs |-> FALSE]
    /\ cur_task = [p \in Procs |-> NoTask]
    /\ my_id = [p \in Procs |-> {}]
    /\ ret = [p \in Procs |-> {}]
    /\ map_lessee = EmptyMap
    /\ reduce_lessee = EmptyMap

\* No word-count data is followed.
NoData ==
    /\ docs = <<>>
    /\ hash = <<>>
    /\ ifile = EmptyMap
    /\ ofile = EmptyMap

\* The workers' file operations are part of Worker::map and Worker::reduce,
\* not steps of their own.
Untracked == inter = EmptyMap /\ consumed = {} /\ NoData

\* The job as mrcoordinator and mrworker processes run it.
Init == InitJob /\ raw = FALSE /\ Untracked

\* The coordinator serving raw clients.
InitRpc == InitJob /\ raw = TRUE /\ Untracked

\* What the handler serving client p may do.
Handler(p) ==
    \/ get_worker_id(p)
    \/ get_map_task(p)
    \/ get_reduce_task(p)
    \/ serialize(p)
    \/ report_map_task_finish(p)
    \/ report_reduce_task_finish(p)

\* What the main thread of the coordinator may do.
DriverStep == DoneProbe \/ check_lease

Next ==
    \/ \E p \in Procs : Handler(p)
    \/ DriverStep
    \/ Tick
    \/ \E p \in Procs : Crash(p)
    \/ \E p \in Procs : RpcFail(p)

\* The raw client: one connection, so one call at a time.
RawClient == "w1"

NextRpc ==
    \/ Handler(RawClient)
    \/ renew_map_lease(RawClient)
    \/ renew_reduce_lease(RawClient)
    \/ RawStep(RawClient)
    \/ DriverStep
    \/ Tick
    \/ RpcFail(RawClient)

\* The job as the processes of this repository run it.
Spec == Init /\ [][Next]_vars

\* The coordinator serving a client that calls any method of the RPC
\* service with any argument, in any order.
SpecRpc == InitRpc /\ [][NextRpc]_vars

\* A step of a worker process that has been started, or of the handler
\* serving it.  (When a worker process is started is up to the operator.)
Running(p) == pc[p] # "start" /\ (Handler(p) \/ RpcFail(p))

\* The job under fair scheduling: every thread that can take a step again
\* and again does take one, and time passes.
SpecFair ==
    /\ Init
    /\ [][Next]_vars
    /\ \A p \in Procs : SF_vars(Running(p))
    /\ SF_vars(DriverStep)
    /\ WF_vars(Tick)

\* ----------------------------------------------------------------- restart
\* Coordinator::new, lines 41-56: the fields of a fresh coordinator.
NewCoordinator ==
    [map_tasks |-> EmptyMap, map_id |-> 0,
     reduce_tasks |-> EmptyMap, reduce_id |-> 0,
     map_finish |-> FALSE, reduce_finish |-> FALSE, worker_id |-> 0,
     map_leases |-> EmptyMap, reduce_leases |-> EmptyMap]

\* Coordinator::deserialize, lines 202-204: the body is `true`; the lines
\* of the log are not looked at and no field of self is written.
deserialize(self, wal_vec) == self

\* Coordinator::recover, lines 206-224: without a log file the coordinator
\* starts in normal mode, with one its lines are handed to deserialize.
recover(self, log) == IF log = <<>> THEN self ELSE deserialize(self, log[1])

\* The coordinator process is stopped and started again on the same log
\* directory after a completion report has written a snapshot: a fresh
\* Coordinator, then recover().  The calls of the worker processes of the
\* old coordinator fail.
Restart ==
    /\ wal # <<>>
    /\ LET c == recover(NewCoordinator, wal) IN
          /\ map_tasks' = c.map_tasks
          /\ map_id' = c.map_id
          /\ reduce_tasks' = c.reduce_tasks
          /\ reduce_id' = c.reduce_id
          /\ map_finish' = c.map_finish
          /\ reduce_finish' = c.reduce_finish
          /\ worker_id' = c.worker_id
          /\ map_leases' = c.map_leases
          /\ reduce_leases' = c.reduce_leases
    /\ holder' = [l \in Locks |-> {}]
    /\ poisoned' = {}
    /\ drv_pc' = "loop"
    /\ pc' = [p \in Procs |->
                 IF pc[p] \in {"exited", "dead", "failed", "crashed"}
                 THEN pc[p] ELSE "failed"]
    /\ map_lessee' = EmptyMap
    /\ reduce_lessee' = EmptyMap
    /\ UNCHANGED <<cfg, io, crashes, wal, state, cur_task, my_id, ret>>

\* The job with restarts of the coordinator process.
SpecRestart == Init /\ [][Next \/ Restart]_vars

\* ------------------------------------------------------- the workers' files
\* Worker::write_key_value_to_file, lines 138-145: File::create opens every
\* intermediate file of the map task under its final name and truncates it.
MapCreate(p) ==
    /\ Tracked
    /\ pc[p] = "work"
    /\ ~state[p]
    /\ inter' = [inter EXCEPT ![cur_task[p]] = "partial"]
    /\ pc' = [pc EXCEPT ![p] = "writing"]
    /\ UNCHANGED <<cfg, crashes, coord, locks, wal, drv_pc, state, cur_task,
                   my_id, ret, hist, consumed, docs, hash, ifile, ofile>>

\* Worker::write_key_value_to_file, lines 147-161: the last record is
\* written.  The files hold the whole output unless another execution of
\* the same map id, which truncated them, is still writing.
MapWrite(p) ==
    /\ Tracked
    /\ pc[p] = "writing"
    /\ inter' = [inter EXCEPT ![cur_task[p]] =
                    IF \E q \in Procs \ {p} :
                          pc[q] = "writing" /\ cur_task[q] = cur_task[p]
                    THEN "partial" ELSE "complete"]
    /\ pc' = [pc EXCEPT ![p] = "written"]
    /\ UNCHANGED <<cfg, crashes, coord, locks, wal, drv_pc, state, cur_task,
                   my_id, ret, hist, consumed, docs, hash, ifile, ofile>>

\* Worker::reduce, line 191, read_file_to_mem_reduce (lines 99-129): every
\* intermediate file of the reduce task is opened and read as it is;
\* File::open(..).unwrap() panics on a file that does not exist.
ReduceRead(p) ==
    /\ Tracked
    /\ pc[p] = "work"
    /\ state[p]
    /\ LET read == {inter[i] : i \in 0..(map_n - 1)} IN
          /\ consumed' = consumed \cup read
          /\ pc' = [pc EXCEPT ![p] = IF "absent" \in read
                                     THEN "dead" ELSE "written"]
    /\ UNCHANGED <<cfg, crashes, coord, locks, wal, drv_pc, state, cur_task,
                   my_id, ret, hist, inter, docs, hash, ifile, ofile>>

\* The file operations of the worker process p.
WorkerIO(p) == MapCreate(p) \/ MapWrite(p) \/ ReduceRead(p)

\* The job with the workers' file operations as steps of their own.
InitFiles ==
    /\ InitJob
    /\ raw = FALSE
    /\ inter = [i \in 0..(map_n - 1) |-> "absent"]
    /\ consumed = {}
    /\ NoData

SpecFiles == InitFiles /\ [][Next \/ \E p \in Procs : WorkerIO(p)]_vars

\* --------------------------------------------------------------- word count
\* The words, and the input files: the words of pg-{i}.txt in their order,
\* as split_whitespace yields them once the punctuation is removed.
Words == 1..MaxWord
Docs == UNION {[1..n -> Words] : n \in 0..MaxWord}

\* wc::map: one record (word, "1") for every word of the input.
wc_map(input) == [x \in 1..Len(input) |-> [key |-> input[x], value |-> 1]]

\* wc::reduce: `value.len()`, the number of values of the key.
wc_reduce(key, value) == Len(value)

\* Worker::write_key_value_to_file, line 149: the index of the intermediate
\* file of a key, `cal_hash_for_key(&key) % self.reduce_n`.
FileIndex(key) == hash[key] % reduce_n

\* Worker::write_key_value_to_file for map task i: the records that go to
\* mr-{i}-{j}.txt, in the order they are written.
write_key_value_to_file(key_value_pairs, j) ==
    LET Mine(kv) == FileIndex(kv.key) = j IN SelectSeq(key_value_pairs, Mine)

\* Worker::read_file_to_mem_reduce for reduce task j: the records of
\* mr-{i}-{j}.txt for i = from, .., map_n - 1, appended in this order.
RECURSIVE read_file_to_mem_reduce(_, _)
read_file_to_mem_reduce(from, j) ==
    IF from >= map_n THEN <<>>
    ELSE ifile[<<from, j>>] \o read_file_to_mem_reduce(from + 1, j)

\* Vec::sort_by on the key, a stable sort: the record goes behind every
\* record whose key is not greater.
RECURSIVE SortedInsert(_, _)
SortedInsert(sorted, kv) ==
    IF sorted = <<>> THEN <<kv>>
    ELSE IF sorted[Len(sorted)].key <= kv.key THEN Append(sorted, kv)
    ELSE Append(SortedInsert(SubSeq(sorted, 1, Len(sorted) - 1), kv),
                sorted[Len(sorted)])

RECURSIVE sort_by_key(_)
sort_by_key(kvs) ==
    IF kvs = <<>> THEN <<>>
    ELSE SortedInsert(sort_by_key(SubSeq(kvs, 1, Len(kvs) - 1)),
                      kvs[Len(kvs)])

\* Worker::reduce, lines 204-222: the loop over the sorted records from
\* position at on, with the locals prev and kv_vec and the lines written so
\* far.  A line is written when the key changes; nothing follows the loop.
RECURSIVE ReduceLoop(_, _, _, _, _)
ReduceLoop(kvs, at, prev, kv_vec, lines) ==
    IF at > Len(kvs) THEN lines
    ELSE LET kv == kvs[at]
             cur == IF prev = NoKey THEN kv.key ELSE prev
         IN IF kv.key # cur
            THEN ReduceLoop(kvs, at + 1, kv.key, <<kv.value>>,
                            Append(lines, <<cur, wc_reduce(cur, kv_vec)>>))
            ELSE ReduceLoop(kvs, at + 1, cur, Append(kv_vec, kv.value),
                            lines)

\* Worker::reduce for reduce task j: the lines of mr-{j}.txt.
reduce(j) ==
    ReduceLoop(sort_by_key(read_file_to_mem_reduce(0, j)), 1, NoKey, <<>>, <<>>)

\* Worker::map for map task i (lines 165-182): pg-{i}.txt is read, mapped
\* and written to the intermediate files mr-{i}-{j}.txt.
WcMap(i) ==
    /\ i \in DOMAIN docs
    /\ <<i, 0>> \notin DOMAIN ifile
    /\ ifile' = [f \in DOMAIN ifile \cup ({i} \X (0..(reduce_n - 1))) |->
                    IF f[1] = i
                    THEN write_key_value_to_file(wc_map(docs[i]), f[2])
                    ELSE ifile[f]]
    /\ UNCHANGED <<cfg, crashes, coord, locks, wal, drv_pc, wrk, hist, inter,
                   consumed, docs, hash, ofile>>

\* Worker::reduce for reduce task j (lines 185-229), once every map task
\* has written its files: mr-{j}.txt is written.
WcReduce(j) ==
    /\ docs # <<>>
    /\ j \in 0..(reduce_n - 1)
    /\ j \notin DOMAIN ofile
    /\ \A i \in DOMAIN docs : <<i, j>> \in DOMAIN ifile
    /\ ofile' = Insert(ofile, j, reduce(j))
    /\ UNCHANGED <<cfg, crashes, coord, locks, wal, drv_pc, wrk, hist, inter,
                   consumed, docs, hash, ifile>>

\* A word-count run on any input files of at most MaxWord words each, with
\* any hash of the words: the data of the job, the coordinator left aside.
InitWc ==
    /\ map_n \in 1..MaxMapN
    /\ reduce_n \in 1..MaxParts
    /\ worker_n = 1
    /\ raw = FALSE
    /\ crashes = 0
    /\ map_tasks = EmptyMap
    /\ map_id = 0
    /\ reduce_tasks = EmptyMap
    /\ reduce_id = 0
    /\ map_finish = FALSE
    /\ reduce_finish = FALSE
    /\ worker_id = 0
    /\ map_leases = EmptyMap
    /\ reduce_leases = EmptyMap
    /\ holder = [l \in Locks |-> {}]
    /\ poisoned = {}
    /\ wal = <<>>
    /\ drv_pc = "loop"
    /\ pc = [p \in Procs |-> "start"]
    /\ state = [p \in Procs |-> FALSE]
    /\ cur_task = [p \in Procs |-> NoTask]
    /\ my_id = [p \in Procs |-> {}]
    /\ ret = [p \in Procs |-> {}]
    /\ map_lessee = EmptyMap
    /\ reduce_lessee = EmptyMap
    /\ inter = EmptyMap
    /\ consumed = {}
    /\ docs \in [0..(map_n - 1) -> Docs]
    /\ hash \in [Words -> 0..(MaxParts - 1)]
    /\ ifile = EmptyMap
    /\ ofile = EmptyMap

NextWc ==
    \/ \E i \in 0..(MaxMapN - 1) : WcMap(i)
    \/ \E j \in 0..(MaxParts - 1) : WcReduce(j)

SpecWc == InitWc /\ [][NextWc]_vars

\* ------------------------------------------------------------ task states
\* A map task is DONE: dispatched (entry true) and its lease removed by an
\* accepted completion report.
MapDone(k) == k \in DOMAIN map_tasks /\ map_tasks[k] /\ k \notin DOMAIN map_leases

\* A map task is IN_FLIGHT: entry true with an outstanding lease.
MapInFlight(k) == k \in DOMAIN map_tasks /\ map_tasks[k] /\ k \in DOMAIN map_leases

\* A map task is PENDING: staled by check_lease.
MapPending(k) == k \in DOMAIN map_tasks /\ ~map_tasks[k]

ReduceDone(k) ==
    k \in DOMAIN reduce_tasks /\ reduce_tasks[k] /\ k \notin DOMAIN reduce_leases

ReduceInFlight(k) ==
    k \in DOMAIN reduce_tasks /\ reduce_tasks[k] /\ k \in DOMAIN reduce_leases

ReducePending(k) == k \in DOMAIN reduce_tasks /\ ~reduce_tasks[k]

AllMapDone == \A k \in 0..(map_n - 1) : MapDone(k)

AllReduceDone == \A k \in 0..(reduce_n - 1) : ReduceDone(k)

\* No thread of the coordinator has panicked.
NoPanic == poisoned = {} /\ drv_pc # "panicked"

\* done() has returned true to the driver loop, which has left the loop.
DoneReturned == drv_pc = "finished"

\* ------------------------------------------------------------------ claims
\* C1: in every reachable state, if the map phase is marked finished
\* (map_finish is true) then every map task id in 0..map_n-1 exists and is
\* DONE: dispatched, reported complete, without a lease and not staled.
C1_MapFinishImpliesAllMapDone == map_finish => AllMapDone

\* C1, the case: a job of several map tasks whose map phase is marked
\* finished while the reduce phase still runs.
C1_Witness == map_finish /\ ~reduce_finish /\ map_n > 1 /\ crashes > 0

\* C2: done() returns true only when the job is FINISHED, every map task
\* and every reduce task DONE without a lease; and once every reduce task
\* is DONE, done() returns true (in a coordinator none of whose threads
\* has panicked).
C2_DoneIffFinished ==
    /\ [](done \/ DoneReturned => AllMapDone /\ AllReduceDone)
    /\ (AllReduceDone /\ NoPanic) ~> (DoneReturned \/ ~NoPanic)

\* C2, the first half alone: done() is true only in FINISHED states.
C2_DoneOnlyWhenFinished == done \/ DoneReturned => AllMapDone /\ AllReduceDone

\* C2, the case the second half fails in: every reduce task is DONE, the
\* handler of the last report holds reduce_tasks and waits for reduce_id,
\* and a thread that holds reduce_id waits for reduce_tasks.
C2_Stuck ==
    /\ AllReduceDone
    /\ ~reduce_finish
    /\ \E p \in Procs :
          /\ pc[p] = "rp3" /\ state[p]
          /\ holder["reduce_id"] # {} /\ holder["reduce_id"] # {p}

\* C3: liveness without failures.  If exactly worker_n workers register and
\* no worker crashes, then under fair scheduling every map task and every
\* reduce task eventually is DONE and done() returns true, so that the
\* driver loop exits.
C3_LivenessWithoutFailures ==
    ([](crashes = 0 /\ "worker_id" \notin poisoned) /\ <>prepare)
        => <>(AllMapDone /\ AllReduceDone /\ DoneReturned)

\* C4: crash recovery.  If a worker is killed while it holds a dispatched
\* task, and a replacement worker connects afterwards, the job still reaches
\* done() = true (also when the killed worker was the only one).
C4_CrashRecovery ==
    \A p \in Procs : \A q \in Procs \ {p} :
        (/\ <>(pc[p] = "crashed" /\ cur_task[p] # NoTask /\ pc[q] = "start")
         /\ <>[](pc[q] # "start"))
            => <>DoneReturned

\* C4, the case: the only worker of the job was killed holding map task 0,
\* the sweeper has demoted the task, and the replacement worker's
\* registration has been refused.
C4_ReplacementRefused ==
    \E p \in Procs : \E q \in Procs \ {p} :
        /\ worker_n = 1
        /\ pc[p] = "crashed" /\ cur_task[p] = 0 /\ ~state[p]
        /\ MapPending(0)
        /\ pc[q] = "failed" /\ my_id[q] = {}

\* The handler serving p returns task id k from get_map_task.
MapReturned(p, k) ==
    /\ pc[p] \in {"gm3", "gm4"}
    /\ pc'[p] \notin {"gm3", "gm4", "failed"}
    /\ ret'[p] = {k}

\* The handler serving p returns task id k from get_reduce_task.
ReduceReturned(p, k) ==
    /\ pc[p] \in {"gr3", "gr4"}
    /\ pc'[p] \notin {"gr3", "gr4", "failed"}
    /\ ret'[p] = {k}

\* The step is the one of check_lease that marks tasks staled.
SweepStep == drv_pc = "cl8" /\ drv_pc' = "loop"

\* C5: no double dispatch.  A task request returns an id only if the id has
\* no outstanding lease and is new or staled, and the id is IN_FLIGHT
\* afterwards; a lease appears only with a dispatch of its id; and a
\* dispatched task becomes staled only by a step of the sweeper.  So between
\* two dispatches of an id there is a sweeper demotion of it, and two racing
\* requests never both get the same id.
C5_NoDoubleDispatch ==
    [][\A k \in RawIds :
          /\ \A p \in Procs :
                /\ MapReturned(p, k) =>
                      /\ k \notin DOMAIN map_leases
                      /\ k \notin DOMAIN map_tasks \/ ~map_tasks[k]
                      /\ MapInFlight(k)'
                /\ ReduceReturned(p, k) =>
                      /\ k \notin DOMAIN reduce_leases
                      /\ k \notin DOMAIN reduce_tasks \/ ~reduce_tasks[k]
                      /\ ReduceInFlight(k)'
          /\ (k \notin DOMAIN map_leases /\ k \in DOMAIN map_leases')
                => \E p \in Procs : MapReturned(p, k)
          /\ (k \notin DOMAIN reduce_leases /\ k \in DOMAIN reduce_leases')
                => \E p \in Procs : ReduceReturned(p, k)
          /\ (~MapPending(k) /\ MapPending(k)') => SweepStep /\ MapInFlight(k)
          /\ (~ReducePending(k) /\ ReducePending(k)')
                => SweepStep /\ ReduceInFlight(k)
      ]_vars

\* C5, the case: map task 0 was dispatched to a worker that was killed, the
\* sweeper demoted it, and it is dispatched a second time, to another worker.
C5_Witness ==
    \E p \in Procs : \E q \in Procs \ {p} :
        /\ pc[p] = "crashed" /\ cur_task[p] = 0 /\ ~state[p]
        /\ pc[q] = "work" /\ cur_task[q] = 0 /\ ~state[q]
        /\ MapInFlight(0)

\* C6: DONE is permanent.  No step (task request, sweep, renewal, report)
\* takes a DONE task to IN_FLIGHT or PENDING: a DONE id is not dispatched
\* again and gets no lease again.
C6_DonePermanent ==
    [][\A k \in RawIds :
          /\ MapDone(k) => MapDone(k)'
          /\ ReduceDone(k) => ReduceDone(k)'
      ]_vars

\* C6, the case: with map task 0 DONE and map task 1 outstanding, the client
\* reports map task 0 once more; the report fails and task 0 is still DONE.
C6_Witness ==
    /\ MapDone(0)
    /\ 1 \in DOMAIN map_tasks
    /\ pc[RawClient] = "failed" /\ cur_task[RawClient] = 0
    /\ ~state[RawClient]
    /\ "map_leases" \in poisoned

\* C7: gating.  While fewer than worker_n workers have registered, every
\* get_map_task call returns -2 and changes no field of the coordinator; no
\* map task has been dispatched and done() is false.
C7_Gating ==
    /\ [](worker_id < worker_n =>
             /\ map_tasks = EmptyMap /\ map_leases = EmptyMap /\ map_id = 0
             /\ ~done /\ ~DoneReturned
             /\ \A p \in Procs : ret[p] \subseteq {NOT_READY}
             /\ \A p \in Procs : cur_task[p] = NoTask)
    /\ [][\A p \in Procs :
             (worker_id < worker_n /\ pc[p] = "gm3" /\ pc'[p] # "gm3")
                => ret'[p] = {NOT_READY} /\ UNCHANGED coord
         ]_vars

\* C7, the case: a job for two workers, one registered, whose get_map_task
\* has returned -2.
C7_Witness ==
    /\ worker_id < worker_n
    /\ \E p \in Procs : my_id[p] # {} /\ ret[p] = {NOT_READY} /\ pc[p] = "idle"

\* C8: phase barrier.  get_reduce_task returns -2 and changes no field of
\* the coordinator whenever some map task is not DONE; it returns a reduce
\* task id only when every map task has been reported complete.
C8_PhaseBarrier ==
    [][\A p \in Procs :
          /\ (~AllMapDone /\ pc[p] = "gr3" /\ pc'[p] # "gr3")
                => ret'[p] = {NOT_READY} /\ UNCHANGED coord
          /\ \A k \in RawIds : ReduceReturned(p, k) => AllMapDone
      ]_vars

\* C8, the case: with one map task DONE and another IN_FLIGHT, a reduce task
\* was requested and the reply was -2.
C8_Witness ==
    /\ state[RawClient] /\ ret[RawClient] = {NOT_READY}
    /\ pc[RawClient] = "idle"
    /\ \E k \in RawIds : MapDone(k)
    /\ \E k \in RawIds : MapInFlight(k)

\* The worker processes that hold a worker id.
Registered == {p \in Procs : my_id[p] # {}}

\* C9: worker registration hands out unique consecutive ids.  The k-th
\* successful get_worker_id returns k (k from 0), and no two workers hold
\* the same worker id.
C9_UniqueConsecutiveIds ==
    /\ [](/\ \A p \in Procs : \A q \in Procs \ {p} : my_id[p] \cap my_id[q] = {}
          /\ UNION {my_id[p] : p \in Procs} = 0..(worker_id - 1))
    /\ [][\A p \in Procs :
             (my_id[p] = {} /\ my_id'[p] # {})
                => my_id'[p] = {Cardinality(Registered)}
         ]_vars

\* C9, the case: two workers have registered.
C9_Witness == Registered = Procs /\ worker_id = 2

MapReportChecked(p, k) ==
    pc[p] = "rp1" /\ ~state[p] /\ cur_task[p] = k /\ pc'[p] # "rp1"

\* The handler serving p accepts the completion report of map task k.
MapReportAccepted(p, k) == MapReportChecked(p, k) /\ pc'[p] \in {"idle", "rp2"}

\* The handler serving p checks the completion report of reduce task k.
ReduceReportChecked(p, k) ==
    pc[p] = "rp1" /\ state[p] /\ cur_task[p] = k /\ pc'[p] # "rp1"

\* The handler serving p accepts the completion report of reduce task k.
ReduceReportAccepted(p, k) ==
    ReduceReportChecked(p, k) /\ pc'[p] \in {"idle", "rp2"}

\* C11: late-report race.  After the sweeper has demoted a task and the task
\* has been dispatched to a second worker, a completion report of the first
\* worker is rejected and leaves the second worker's lease alone: a report
\* is accepted only from the worker the outstanding lease was created for,
\* and the report of that worker is accepted.
C11_LateReportRejected ==
    [][\A p \in Procs : \A k \in RawIds :
          /\ MapReportAccepted(p, k)
                => k \in DOMAIN map_lessee /\ map_lessee[k] = p
          /\ ReduceReportAccepted(p, k)
                => k \in DOMAIN reduce_lessee /\ reduce_lessee[k] = p
          /\ (/\ MapReportChecked(p, k)
              /\ k \in DOMAIN map_lessee /\ map_lessee[k] = p
              /\ poisoned = {})
                => MapReportAccepted(p, k)
          /\ (/\ ReduceReportChecked(p, k)
              /\ k \in DOMAIN reduce_lessee /\ reduce_lessee[k] = p
              /\ poisoned = {})
                => ReduceReportAccepted(p, k)
      ]_vars

\* C11, the case: map task 0 was dispatched to a worker, demoted by the
\* sweeper and dispatched to a second worker, which is executing it; the
\* handler of the first worker's report is about to check the report.
C11_LateReport ==
    \E p \in Procs : \E q \in Procs \ {p} :
        /\ pc[p] = "rp1" /\ ~state[p] /\ cur_task[p] = 0
        /\ pc[q] = "work" /\ ~state[q] /\ cur_task[q] = 0
        /\ MapInFlight(0) /\ map_lessee[0] = q
        /\ poisoned = {} /\ crashes = 0

\* C12: a completion report for an id that does not exist or is not
\* IN_FLIGHT (PENDING after a sweep, or DONE) fails, and leaves the task
\* states, the leases, the id counters and the phase flags unchanged.
C12_BadReportFails ==
    [][\A p \in Procs : \A k \in RawIds :
          /\ (MapReportChecked(p, k) /\ ~MapInFlight(k))
                => pc'[p] = "failed" /\ UNCHANGED coord
          /\ (ReduceReportChecked(p, k) /\ ~ReduceInFlight(k))
                => pc'[p] = "failed" /\ UNCHANGED coord
      ]_vars

\* C12, the case: the report of a map task that the sweeper had demoted has
\* failed; the task is still PENDING.
C12_Witness ==
    /\ pc[RawClient] = "failed" /\ ~state[RawClient]
    /\ cur_task[RawClient] = 0
    /\ MapPending(0)
    /\ {"map_tasks", "map_leases"} \subseteq poisoned

\* C13: a task request returns -1 only when every task of the phase is
\* DONE.  When get_map_task returns -1 the map phase is marked finished and
\* every map task is DONE; when get_reduce_task returns -1 every reduce task
\* is DONE and done() is true.
C13_PhaseDoneOnlyWhenComplete ==
    [][\A p \in Procs :
          /\ MapReturned(p, PHASE_DONE) => map_finish /\ AllMapDone
          /\ ReduceReturned(p, PHASE_DONE) => AllReduceDone /\ done
      ]_vars

\* C13, the case: a worker has left the map phase on a reply of -1, and a
\* worker has exited on a reply of -1 to its reduce request.
C13_Witness ==
    /\ map_n > 1
    /\ \E p \in Procs : pc[p] = "exited" /\ ret[p] = {PHASE_DONE}

\* C14: exhaustion with outstanding leases.  When the job is prepared, every
\* id of the phase has been dispatched, no task is PENDING and some task is
\* IN_FLIGHT, a task request returns -3, not -1 and not an id, and changes
\* no field of the coordinator (in a coordinator no handler of which has
\* panicked).
C14_WaitRetry ==
    [][\A p \in Procs :
          /\ (/\ pc[p] \in {"gm3", "gm4"} /\ pc'[p] \notin {"gm3", "gm4"}
              /\ poisoned = {} /\ prepare /\ map_id = map_n
              /\ \A k \in DOMAIN map_tasks : ~MapPending(k)
              /\ \E k \in DOMAIN map_tasks : MapInFlight(k))
                => ret'[p] = {WAIT_RETRY} /\ UNCHANGED coord
          /\ (/\ pc[p] \in {"gr3", "gr4"} /\ pc'[p] \notin {"gr3", "gr4"}
              /\ poisoned = {} /\ map_finish /\ reduce_id = reduce_n
              /\ \A k \in DOMAIN reduce_tasks : ~ReducePending(k)
              /\ \E k \in DOMAIN reduce_tasks : ReduceInFlight(k))
                => ret'[p] = {WAIT_RETRY} /\ UNCHANGED coord
      ]_vars

\* C14, the case: every map id is dispatched, a worker is executing a map
\* task, and the other worker's get_map_task has returned -3.
C14_Witness ==
    \E p \in Procs : \E q \in Procs \ {p} :
        /\ ret[p] = {WAIT_RETRY} /\ ~state[p]
        /\ pc[q] = "work" /\ ~state[q] /\ MapInFlight(cur_task[q])
        /\ map_id = map_n /\ crashes = 0

\* C15: re-dispatch picks the lowest id.  A task request that returns the
\* id of a task that was PENDING returns the smallest PENDING id of the
\* phase, and promotes that task and no other.
C15_RedispatchLowest ==
    [][\A p \in Procs : \A k \in RawIds :
          /\ (MapReturned(p, k) /\ MapPending(k))
                => /\ \A j \in DOMAIN map_tasks : MapPending(j) => k <= j
                   /\ map_tasks' = Insert(map_tasks, k, TRUE)
                   /\ map_leases' = Insert(map_leases, k, 0)
          /\ (ReduceReturned(p, k) /\ ReducePending(k))
                => /\ \A j \in DOMAIN reduce_tasks : ReducePending(j) => k <= j
                   /\ reduce_tasks' = Insert(reduce_tasks, k, TRUE)
                   /\ reduce_leases' = Insert(reduce_leases, k, 0)
      ]_vars

\* C15, the case: a get_map_task request holds the three guards and is at
\* the scan, every fresh id is exhausted and map tasks 0 and 1 are PENDING.
C15_TwoPending ==
    /\ pc[RawClient] = "gm3"
    /\ prepare
    /\ map_id = map_n
    /\ MapPending(0)
    /\ MapPending(1)
    /\ poisoned = {}

\* C16: fresh dispatch comes first and in id order.  While the id counter of
\* the phase is below the number of tasks, a task request (prepared, resp.
\* past the barrier; no handler has panicked) returns the counter, creates
\* that task IN_FLIGHT with a new lease, touching no other task, and adds
\* one to the counter, whether or not PENDING tasks exist.  The counters
\* only grow, by one at a time, and never exceed the number of tasks.
C16_FreshFirst ==
    [][/\ \A p \in Procs :
          /\ (/\ pc[p] \in {"gm3", "gm4"} /\ pc'[p] \notin {"gm3", "gm4"}
              /\ poisoned = {} /\ prepare /\ map_id < map_n)
                => /\ ret'[p] = {map_id}
                   /\ map_id \notin DOMAIN map_tasks
                   /\ map_tasks' = Insert(map_tasks, map_id, TRUE)
                   /\ map_leases' = Insert(map_leases, map_id, 0)
                   /\ map_id' = map_id + 1
          /\ (/\ pc[p] \in {"gr3", "gr4"} /\ pc'[p] \notin {"gr3", "gr4"}
              /\ poisoned = {} /\ map_finish /\ reduce_id < reduce_n)
                => /\ ret'[p] = {reduce_id}
                   /\ reduce_id \notin DOMAIN reduce_tasks
                   /\ reduce_tasks' = Insert(reduce_tasks, reduce_id, TRUE)
                   /\ reduce_leases' = Insert(reduce_leases, reduce_id, 0)
                   /\ reduce_id' = reduce_id + 1
       /\ map_id' \in {map_id, map_id + 1} /\ map_id' <= map_n
       /\ reduce_id' \in {reduce_id, reduce_id + 1} /\ reduce_id' <= reduce_n
      ]_vars

\* C16, the case: a prepared get_map_task request is past the reading of
\* map_finish, a fresh map id is left and map task 0 is PENDING.
C16_Witness ==
    \E p \in Procs :
        /\ pc[p] = "gm4"
        /\ map_id < map_n
        /\ MapPending(0)
        /\ poisoned = {}

\* The step is the answer to renew_map_lease(k) called by p.
MapRenewal(p, k) ==
    pc[p] = "renew" /\ ~state[p] /\ cur_task[p] = k /\ pc'[p] # "renew"

\* The step is the answer to renew_reduce_lease(k) called by p.
ReduceRenewal(p, k) ==
    pc[p] = "renew" /\ state[p] /\ cur_task[p] = k /\ pc'[p] # "renew"

\* C17: lease renewal keeps a task alive.  A renewal of an IN_FLIGHT task,
\* answered by a running coordinator whose lease table no handler has
\* poisoned, succeeds, sets the age of that lease to zero and changes
\* nothing else; and a task goes from IN_FLIGHT to PENDING only in the
\* sweeper, and only when at least the lease duration has passed since its
\* lease was created or last renewed.
C17_RenewalKeepsAlive ==
    [][\A k \in RawIds :
          /\ \A p \in Procs :
                /\ (/\ MapRenewal(p, k) /\ MapInFlight(k) /\ CoordUp
                    /\ "map_leases" \notin poisoned)
                      => /\ pc'[p] = "idle"
                         /\ map_leases' = Insert(map_leases, k, 0)
                         /\ UNCHANGED <<map_tasks, map_id, reduce_tasks,
                                        reduce_id, map_finish, reduce_finish,
                                        worker_id, reduce_leases, poisoned>>
                /\ (/\ ReduceRenewal(p, k) /\ ReduceInFlight(k) /\ CoordUp
                    /\ "reduce_leases" \notin poisoned)
                      => /\ pc'[p] = "idle"
                         /\ reduce_leases' = Insert(reduce_leases, k, 0)
                         /\ UNCHANGED <<map_tasks, map_id, reduce_tasks,
                                        reduce_id, map_finish, reduce_finish,
                                        worker_id, map_leases, poisoned>>
          /\ (MapInFlight(k) /\ k \in DOMAIN map_tasks' /\ ~map_tasks'[k])
                => SweepStep /\ map_leases[k] >= LeaseTicks
          /\ (/\ ReduceInFlight(k)
              /\ k \in DOMAIN reduce_tasks' /\ ~reduce_tasks'[k])
                => SweepStep /\ reduce_leases[k] >= LeaseTicks
      ]_vars

\* C17, the case: the client's renewal of map task 0 has succeeded, its
\* lease is new and the task IN_FLIGHT, while the lease of map task 1, not
\* renewed, has run out.
C17_Witness ==
    /\ pc[RawClient] = "idle"
    /\ ~state[RawClient]
    /\ cur_task[RawClient] = 0
    /\ MapInFlight(0) /\ map_leases[0] = 0
    /\ MapInFlight(1) /\ map_leases[1] >= LeaseTicks

\* C18: a renewal without a lease fails.  A renewal of an id that has no
\* outstanding lease makes the caller's call fail, creates no lease and
\* changes no task, counter or flag.
C18_RenewalWithoutLeaseFails ==
    [][\A p \in Procs : \A k \in RawIds :
          /\ (MapRenewal(p, k) /\ k \notin DOMAIN map_leases)
                => /\ pc'[p] = "failed"
                   /\ UNCHANGED <<map_tasks, map_id, reduce_tasks, reduce_id,
                                  map_finish, reduce_finish, worker_id,
                                  map_leases, reduce_leases>>
          /\ (ReduceRenewal(p, k) /\ k \notin DOMAIN reduce_leases)
                => /\ pc'[p] = "failed"
                   /\ UNCHANGED <<map_tasks, map_id, reduce_tasks, reduce_id,
                                  map_finish, reduce_finish, worker_id,
                                  map_leases, reduce_leases>>
      ]_vars

\* C18, the case: the client's renewal of map task 0 has failed, the task
\* having been reclaimed by the sweeper; it is PENDING still.
C18_Witness ==
    /\ pc[RawClient] = "failed"
    /\ ~state[RawClient]
    /\ cur_task[RawClient] = 0
    /\ MapPending(0)
    /\ 0 \notin DOMAIN map_leases
    /\ poisoned = {"map_leases"}

\* C19: a live worker keeps its task.  The sweeper does not reclaim a task
\* while the worker it was dispatched to, not crashed, is executing it.
C19_LiveWorkerKeepsTask ==
    [][\A p \in Procs : \A k \in RawIds :
          /\ (/\ SweepStep /\ pc[p] = "work" /\ ~state[p] /\ cur_task[p] = k
              /\ MapInFlight(k) /\ map_lessee[k] = p)
                => MapInFlight(k)'
          /\ (/\ SweepStep /\ pc[p] = "work" /\ state[p] /\ cur_task[p] = k
              /\ ReduceInFlight(k) /\ reduce_lessee[k] = p)
                => ReduceInFlight(k)'
      ]_vars

\* C19, the case: no process has crashed, a worker is executing map task 0,
\* and the sweeper has reclaimed the task.
C19_Reclaimed ==
    \E p \in Procs :
        /\ pc[p] = "work" /\ ~state[p] /\ cur_task[p] = 0
        /\ MapPending(0)
        /\ crashes = 0
        /\ poisoned = {}

\* C20: worker reaction to transient codes.  A worker that received -2 or
\* -3 goes on asking; the task id a worker executes is an id of its phase,
\* never a negative code.
C20_TransientCodesRetried ==
    \A p \in Procs :
        /\ ret[p] \in {{NOT_READY}, {WAIT_RETRY}} => pc[p] # "dead"
        /\ cur_task[p] # NoTask
              => cur_task[p] \in 0..((IF state[p] THEN reduce_n ELSE map_n) - 1)

\* C20, the case: no process has crashed and no handler has panicked; a
\* worker received -3 from get_map_task, took it as its map task id and
\* died opening the input file of that id.
C20_CodeTakenAsTask ==
    \E p \in Procs :
        /\ pc[p] = "dead" /\ ~state[p]
        /\ ret[p] = {WAIT_RETRY}
        /\ cur_task[p] = WAIT_RETRY
        /\ crashes = 0
        /\ poisoned = {}

\* ----------------------------------------------------------- linearizability
\* The map ids under lease in the job record: a completion report takes
\* effect when its handler returns, so the lease it has removed still counts
\* while the handler is on its way to the flag.
AbsMapLeased ==
    DOMAIN map_leases \cup
    {cur_task[p] : p \in {q \in Procs : ~state[q] /\ pc[q] \in {"rp2", "rp3"}}}

\* The reduce ids under lease in the job record.
AbsReduceLeased ==
    DOMAIN reduce_leases \cup
    {cur_task[p] : p \in {q \in Procs : state[q] /\ pc[q] \in {"rp2", "rp3"}}}

\* The job record the operations act on.
JobRecord ==
    <<map_tasks, map_id, reduce_tasks, reduce_id, map_finish, reduce_finish,
      worker_id, AbsMapLeased, AbsReduceLeased>>

\* The map half and the reduce half of the job record.
MapRecord == <<map_tasks, map_id, map_finish, AbsMapLeased>>
ReduceRecord == <<reduce_tasks, reduce_id, reduce_finish, AbsReduceLeased>>

\* Registration of p executed alone on the job record.
SeqRegister(p) ==
    IF worker_id = worker_n
    THEN pc'[p] = "failed" /\ UNCHANGED JobRecord
    ELSE /\ pc'[p] = "idle"
         /\ my_id'[p] = {worker_id}
         /\ worker_id' = worker_id + 1
         /\ UNCHANGED <<MapRecord, ReduceRecord>>

\* A map task request executed alone on the job record, answered with r.
SeqGetMapTask(r) ==
    IF worker_id # worker_n
    THEN r = NOT_READY /\ UNCHANGED JobRecord
    ELSE IF map_id # map_n /\ ~map_finish
    THEN /\ r = map_id
         /\ map_tasks' = Insert(map_tasks, map_id, TRUE)
         /\ AbsMapLeased' = AbsMapLeased \cup {map_id}
         /\ map_id' = map_id + 1
         /\ UNCHANGED <<map_finish, worker_id, ReduceRecord>>
    ELSE IF \E k \in DOMAIN map_tasks : ~map_tasks[k]
    THEN /\ r \in DOMAIN map_tasks /\ ~map_tasks[r]
         /\ map_tasks' = Insert(map_tasks, r, TRUE)
         /\ AbsMapLeased' = AbsMapLeased \cup {r}
         /\ UNCHANGED <<map_id, map_finish, worker_id, ReduceRecord>>
    ELSE /\ r = (IF AbsMapLeased # {} THEN WAIT_RETRY ELSE PHASE_DONE)
         /\ UNCHANGED JobRecord

\* A reduce task request executed alone on the job record.
SeqGetReduceTask(r) ==
    IF ~map_finish
    THEN r = NOT_READY /\ UNCHANGED JobRecord
    ELSE IF reduce_id # reduce_n /\ ~reduce_finish
    THEN /\ r = reduce_id
         /\ reduce_tasks' = Insert(reduce_tasks, reduce_id, TRUE)
         /\ AbsReduceLeased' = AbsReduceLeased \cup {reduce_id}
         /\ reduce_id' = reduce_id + 1
         /\ UNCHANGED <<reduce_finish, worker_id, MapRecord>>
    ELSE IF \E k \in DOMAIN reduce_tasks : ~reduce_tasks[k]
    THEN /\ r \in DOMAIN reduce_tasks /\ ~reduce_tasks[r]
         /\ reduce_tasks' = Insert(reduce_tasks, r, TRUE)
         /\ AbsReduceLeased' = AbsReduceLeased \cup {r}
         /\ UNCHANGED <<reduce_id, reduce_finish, worker_id, MapRecord>>
    ELSE /\ r = (IF AbsReduceLeased # {} THEN WAIT_RETRY ELSE PHASE_DONE)
         /\ UNCHANGED JobRecord

\* A completion report of map task id executed alone on the job record;
\* ok tells whether the caller's call succeeded.
SeqReportMap(id, ok) ==
    IF id \in DOMAIN map_tasks /\ map_tasks[id] /\ id \in AbsMapLeased
    THEN /\ ok
         /\ AbsMapLeased' = AbsMapLeased \ {id}
         /\ map_finish' =
               (\/ map_finish
                \/ /\ \A k \in DOMAIN map_tasks : map_tasks[k]
                   /\ AbsMapLeased = {id}
                   /\ map_id = map_n)
         /\ UNCHANGED <<map_tasks, map_id, worker_id, ReduceRecord>>
    ELSE ~ok /\ UNCHANGED JobRecord

\* A completion report of reduce task id executed alone on the job record.
SeqReportReduce(id, ok) ==
    IF id \in DOMAIN reduce_tasks /\ reduce_tasks[id] /\ id \in AbsReduceLeased
    THEN /\ ok
         /\ AbsReduceLeased' = AbsReduceLeased \ {id}
         /\ reduce_finish' =
               (\/ reduce_finish
                \/ /\ \A k \in DOMAIN reduce_tasks : reduce_tasks[k]
                   /\ AbsReduceLeased = {id}
                   /\ reduce_id = reduce_n)
         /\ UNCHANGED <<reduce_tasks, reduce_id, worker_id, MapRecord>>
    ELSE ~ok /\ UNCHANGED JobRecord

\* One run of the sweeper executed alone on the job record.
SeqSweep ==
    IF map_finish /\ reduce_finish
    THEN UNCHANGED JobRecord
    ELSE IF map_finish
    THEN LET ids == StaleLeases(reduce_leases) IN
         /\ reduce_tasks' = MarkStale(reduce_tasks, ids)
         /\ AbsReduceLeased' = AbsReduceLeased \ ids
         /\ UNCHANGED <<reduce_id, reduce_finish, worker_id, MapRecord>>
    ELSE LET ids == StaleLeases(map_leases) IN
         /\ map_tasks' = MarkStale(map_tasks, ids)
         /\ AbsMapLeased' = AbsMapLeased \ ids
         /\ UNCHANGED <<map_id, map_finish, worker_id, ReduceRecord>>

\* The handler serving p returns (or panics) in this step.
Answered(p, inside) == pc[p] \in inside /\ pc'[p] \notin inside

\* The operation of p, if any, that takes effect in this step.
TakesEffect(p) ==
    \/ Answered(p, {"start"}) /\ pc'[p] # "crashed"
    \/ Answered(p, {"gm3", "gm4"})
    \/ Answered(p, {"gr3", "gr4"})
    \/ Answered(p, {"rp1", "rp2", "rp3"})

MapDoneCount == Cardinality({k \in DOMAIN map_tasks : MapDone(k)})
ReduceDoneCount == Cardinality({k \in DOMAIN reduce_tasks : ReduceDone(k)})

\* C22: monotonicity.  No step lowers worker_id, map_id or reduce_id, or the
\* number of DONE tasks of a phase, or takes a phase flag from true to
\* false; and reduce_finish is only set when map_finish is.
C22_Monotone ==
    [][/\ worker_id' >= worker_id
       /\ map_id' >= map_id
       /\ reduce_id' >= reduce_id
       /\ MapDoneCount' >= MapDoneCount
       /\ ReduceDoneCount' >= ReduceDoneCount
       /\ map_finish => map_finish'
       /\ reduce_finish => reduce_finish'
       /\ reduce_finish' => map_finish'
      ]_vars

\* C22, the case: a job of two map tasks has run to its end although a
\* worker process was killed: every counter is at its maximum, every task
\* is DONE and both flags are set.
C22_Witness ==
    /\ map_n = MaxMapN /\ map_id = map_n /\ reduce_id = reduce_n
    /\ worker_id = worker_n
    /\ MapDoneCount = map_n /\ ReduceDoneCount = reduce_n
    /\ map_finish /\ reduce_finish
    /\ crashes = 1

\* C23: invariant violations are fatal.  Once a handler has panicked on a
\* sanity check (a mutex is poisoned), no task request is answered with a
\* task id and no completion report is accepted.
C23_ViolationsFatal ==
    [][poisoned # {} =>
          \A p \in Procs : \A k \in RawIds :
              /\ ~MapReturned(p, k)
              /\ ~ReduceReturned(p, k)
              /\ ~MapReportAccepted(p, k)
              /\ ~ReduceReportAccepted(p, k)
      ]_vars

\* C23, the case: a registration beyond worker_n has panicked its handler,
\* the coordinator is running, and the completion report of a map task that
\* is IN_FLIGHT has reached its sanity checks.
C23_StillServing ==
    \E p \in Procs : \E q \in Procs \ {p} :
        /\ pc[q] = "failed" /\ my_id[q] = {}
        /\ poisoned = {"worker_id"}
        /\ CoordUp
        /\ pc[p] = "rp1" /\ ~state[p] /\ MapInFlight(cur_task[p])

\* C24: restart recovery round-trips.  After a restart the coordinator has
\* the task set, the counters and the flags of the snapshot it recovered
\* from, the DONE tasks of the snapshot are DONE, every other task of the
\* snapshot is PENDING, and no lease is outstanding.
C24_RecoveryRoundTrip ==
    [][Restart =>
          LET snap == wal[1] IN
          /\ map_tasks' = [k \in DOMAIN snap.map_tasks |->
                              snap.map_tasks[k] /\ k \notin snap.map_leases]
          /\ reduce_tasks' = [k \in DOMAIN snap.reduce_tasks |->
                                 snap.reduce_tasks[k]
                                 /\ k \notin snap.reduce_leases]
          /\ map_id' = snap.map_id
          /\ reduce_id' = snap.reduce_id
          /\ map_finish' = snap.map_finish
          /\ reduce_finish' = snap.reduce_finish
          /\ map_leases' = EmptyMap
          /\ reduce_leases' = EmptyMap
      ]_vars

\* C24, the case: the coordinator has been restarted on a snapshot with
\* map tasks in it, and has none.
C24_Forgotten ==
    /\ wal # <<>>
    /\ wal[1].map_id > 0
    /\ DOMAIN wal[1].map_tasks # {}
    /\ map_id = 0
    /\ map_tasks = EmptyMap
    /\ drv_pc = "loop"

\* C29: sweeper effect and frame.  One run of check_lease that finds the
\* job unfinished marks false exactly the tasks of the running phase whose
\* lease is at least LeaseTicks old and removes exactly their leases; the
\* tasks and leases of the other phase, the counters and the flags stay as
\* they are.  A run that finds the job finished changes nothing.
C29_SweepFrame ==
    [][SweepStep =>
          LET ms == IF map_finish THEN {} ELSE StaleLeases(map_leases)
              rs == IF map_finish /\ ~reduce_finish
                    THEN StaleLeases(reduce_leases) ELSE {}
          IN
          /\ \A k \in ms : MapInFlight(k) /\ MapPending(k)'
          /\ \A k \in rs : ReduceInFlight(k) /\ ReducePending(k)'
          /\ DOMAIN map_tasks' = DOMAIN map_tasks
          /\ \A k \in DOMAIN map_tasks \ ms : map_tasks'[k] = map_tasks[k]
          /\ DOMAIN reduce_tasks' = DOMAIN reduce_tasks
          /\ \A k \in DOMAIN reduce_tasks \ rs :
                reduce_tasks'[k] = reduce_tasks[k]
          /\ DOMAIN map_leases' = DOMAIN map_leases \ ms
          /\ \A k \in DOMAIN map_leases' : map_leases'[k] = map_leases[k]
          /\ DOMAIN reduce_leases' = DOMAIN reduce_leases \ rs
          /\ \A k \in DOMAIN reduce_leases' :
                reduce_leases'[k] = reduce_leases[k]
          /\ UNCHANGED <<map_id, reduce_id, worker_id, map_finish,
                         reduce_finish>>
      ]_vars

\* C29, the case: check_lease holds every guard but the last and is about
\* to look at the leases: the map phase is running, the lease of map task 0
\* is stale and the lease of map task 1 is not.
C29_Witness ==
    /\ drv_pc = "cl8"
    /\ ~map_finish
    /\ MapInFlight(0) /\ map_leases[0] >= LeaseTicks
    /\ MapInFlight(1) /\ map_leases[1] < LeaseTicks
    /\ poisoned = {}

\* C30: log-ahead ordering.  When a completion report is accepted and its
\* lease dropped, the snapshot in the log is the snapshot of the state the
\* report is applied to.
C30_SnapshotDescribesState ==
    [][\A p \in Procs : \A k \in RawIds :
          (MapReportAccepted(p, k) \/ ReduceReportAccepted(p, k))
              => wal = <<Snapshot>>
      ]_vars

\* C30, the case: the report of a map task that is IN_FLIGHT has written its
\* snapshot and reached its sanity checks, and the state is no longer the
\* one of the snapshot.
C30_SnapshotOutdated ==
    \E p \in Procs :
        /\ pc[p] = "rp1" /\ ~state[p] /\ MapInFlight(cur_task[p])
        /\ wal # <<Snapshot>>
        /\ poisoned = {}
        /\ CoordUp

\* C28: phase advance happens exactly at drain.  A completion report sets
\* the flag of its phase only when it leaves every task of the phase DONE;
\* and when the last lease of a phase is gone and every task of the phase
\* is DONE, the flag of the phase gets set (in a coordinator none of whose
\* threads panics).
C28_AdvanceAtDrain ==
    /\ [][/\ (~map_finish /\ map_finish') => AllMapDone'
          /\ (~reduce_finish /\ reduce_finish') => AllReduceDone'
         ]_vars
    /\ (AllMapDone /\ NoPanic) ~> (map_finish \/ ~NoPanic)
    /\ (AllReduceDone /\ NoPanic) ~> (reduce_finish \/ ~NoPanic)

\* C28, the case: every map task is DONE, the report that removed the last
\* lease waits for the map_id guard with the flag still to set, and the
\* handler that holds map_id waits for a guard the report holds.
C28_Stuck ==
    /\ AllMapDone
    /\ ~map_finish
    /\ NoPanic
    /\ \E p \in Procs : \E q \in Procs \ {p} :
          /\ pc[p] = "rp3" /\ ~state[p]
          /\ holder["map_id"] = {q}
          /\ pc[q] \in {"gm1", "ser2"}

\* C26: no partially written file is ever consumed.  Worker::reduce reads
\* only intermediate files that are written to the end.
C26_OnlyCompleteFilesRead == consumed \subseteq {"complete"}

\* C26, the case: no process has crashed and no handler has panicked; a
\* worker executing a reduce task has read the intermediate files of map
\* task 0 while the other worker, executing map task 0, is writing them.
C26_PartialRead ==
    \E p \in Procs : \E q \in Procs \ {p} :
        /\ pc[q] = "writing" /\ cur_task[q] = 0
        /\ state[p] /\ pc[p] = "written"
        /\ inter[0] = "partial"
        /\ "partial" \in consumed
        /\ crashes = 0
        /\ poisoned = {}

\* The distinct keys among the records.
KeysOf(kvs) == {kvs[x].key : x \in 1..Len(kvs)}

\* How many of the records have the key.
CountOf(kvs, key) == Cardinality({x \in 1..Len(kvs) : kvs[x].key = key})

\* One line per distinct key of the records, in ascending order of the
\* keys, with reduce_fn of the values of the key.
Grouped(kvs) ==
    [n \in 1..Cardinality(KeysOf(kvs)) |->
        LET key == CHOOSE k \in KeysOf(kvs) :
                      Cardinality({x \in KeysOf(kvs) : x < k}) = n - 1
        IN <<key, CountOf(kvs, key)>>]

\* C27: reduce execution emits every group.  The lines of mr-{j}.txt are
\* one line per distinct key of the records reduce task j read, in
\* ascending order of the keys, each with reduce_fn of all values of its
\* key.
C27_EveryGroupEmitted ==
    \A j \in DOMAIN ofile : ofile[j] = Grouped(read_file_to_mem_reduce(0, j))

\* C27, the case: reduce task 0 has read records of two distinct keys and
\* has written mr-0.txt, without a line for the greater key.
C27_LastGroupMissing ==
    /\ 0 \in DOMAIN ofile
    /\ KeysOf(read_file_to_mem_reduce(0, 0)) = {1, 2}
    /\ \A n \in 1..Len(ofile[0]) : ofile[0][n][1] # 2

\* How often the word occurs in the input files.
RECURSIVE Occurrences(_, _)
Occurrences(word, from) ==
    IF from >= map_n THEN 0
    ELSE Cardinality({x \in 1..Len(docs[from]) : docs[from][x] = word})
         + Occurrences(word, from + 1)

\* The lines of the output files that have the word as their key.
LinesOf(word) ==
    {f \in {<<j, n>> : j \in DOMAIN ofile, n \in 1..MaxWord} :
        f[2] <= Len(ofile[f[1]]) /\ ofile[f[1]][f[2]][1] = word}

\* C25: the end-to-end result is the reference word count.  Once every
\* reduce task has written its output, every word of the inputs has exactly
\* one line in the output files, with its total count, and no other word
\* has a line.
C25_ReferenceWordCount ==
    DOMAIN ofile = 0..(reduce_n - 1) =>
        \A w \in Words :
            IF Occurrences(w, 0) = 0 THEN LinesOf(w) = {}
            ELSE /\ Cardinality(LinesOf(w)) = 1
                 /\ \A f \in LinesOf(w) :
                       ofile[f[1]][f[2]][2] = Occurrences(w, 0)

\* C25, the case: every reduce task has written its output and word 1,
\* which occurs in the input files, is in no output file.
C25_WordLost ==
    /\ docs # <<>>
    /\ DOMAIN ofile = 0..(reduce_n - 1)
    /\ Occurrences(1, 0) > 0
    /\ LinesOf(1) = {}

\* The threads of the coordinator that take locks: the handler serving each
\* worker's connection, and main.
Threads == Procs \cup {Driver}

\* The mutex whose lock() the handler serving p has reached: the lock of
\* the next step of get_map_task (gm), get_reduce_task (gr), serialize
\* (ser) and report_*_task_finish (rp).  None outside a handler.
HandlerWants(p) ==
    CASE pc[p] = "gm1" -> {"map_tasks"}
      [] pc[p] = "gm2" -> {"map_leases"}
      [] pc[p] = "gm3" -> {"worker_id"}
      [] pc[p] = "gm4" -> {"map_finish"}
      [] pc[p] = "gr1" -> {"reduce_tasks"}
      [] pc[p] = "gr2" -> {"reduce_leases"}
      [] pc[p] = "gr3" -> {"map_finish"}
      [] pc[p] = "gr4" -> {"reduce_finish"}
      [] pc[p] = "ser1" -> {"reduce_id"}
      [] pc[p] = "ser2" -> {"map_tasks"}
      [] pc[p] = "ser3" -> {"reduce_tasks"}
      [] pc[p] = "ser4" -> {"map_leases"}
      [] pc[p] = "ser5" -> {"reduce_leases"}
      [] pc[p] = "ser6" -> {"reduce_finish"}
      [] pc[p] = "ser7" -> {"map_finish"}
      [] pc[p] = "rp0" -> {IF state[p] THEN "reduce_tasks" ELSE "map_tasks"}
      [] pc[p] = "rp1" -> {IF state[p] THEN "reduce_leases" ELSE "map_leases"}
      [] pc[p] = "rp2" -> {IF state[p] THEN "reduce_finish" ELSE "map_finish"}
      [] pc[p] = "rp3" -> {IF state[p] THEN "reduce_id" ELSE "map_id"}
      [] OTHER -> {}

\* The mutex whose lock() main has reached inside done() or check_lease.
DriverWants ==
    CASE drv_pc = "done1" -> {"reduce_finish"}
      [] drv_pc = "cl1" -> {"reduce_id"}
      [] drv_pc = "cl2" -> {"worker_id"}
      [] drv_pc = "cl3" -> {"map_tasks"}
      [] drv_pc = "cl4" -> {"reduce_tasks"}
      [] drv_pc = "cl5" -> {"map_leases"}
      [] drv_pc = "cl6" -> {"reduce_leases"}
      [] drv_pc = "cl7" -> {"reduce_finish"}
      [] drv_pc = "cl8" -> {"map_finish"}
      [] OTHER -> {}

Wants(t) == IF t = Driver THEN DriverWants ELSE HandlerWants(t)

\* Thread t waits for a mutex that thread u holds.
WaitsFor(t, u) == Wants(t) \cap HeldBy(u) # {}

\* C31: deadlock freedom of the per-field locks.  In no reachable state do
\* two running operations of the coordinator each hold a mutex the other is
\* waiting for (so that every started operation can acquire its locks and
\* complete).
C31_NoLockCycle ==
    \A t \in Threads : \A u \in Threads \ {t} :
        ~(WaitsFor(t, u) /\ WaitsFor(u, t))

\* C31, the case: report_map_task_finish, holding map_tasks, map_leases and
\* map_finish, waits for map_id, which check_lease holds while it waits for
\* map_tasks.
C31_ReportAgainstSweep ==
    \E p \in Procs :
        /\ pc[p] = "rp3" /\ ~state[p]
        /\ {"map_tasks", "map_leases", "map_finish"} \subseteq HeldBy(p)
        /\ drv_pc = "cl3"
        /\ "map_id" \in HeldBy(Driver)

\* Every lease belongs to a task marked true, so that no task marked false
\* (staled) has a lease.
LeasesOfTrueTasks(tasks, leases) ==
    \A k \in DOMAIN leases : k \in DOMAIN tasks /\ tasks[k]

====
